---- MODULE Spec2Model ----
(***************************************************************************)
(* A model of safe-db.js, the JSON-file note store: atomic writes through  *)
(* a temporary sibling file, timestamped backups, advisory locking of      *)
(* db.json, the startup integrity check and the redaction of backups.      *)
(***************************************************************************)
EXTENDS Integers, Sequences, FiniteSets, TLC

\* ---------------------------------------------------------------- bounds
\* The wall clock (milliseconds, as far as names and mtimes can tell) runs
\* from 0 to MaxClock.
MaxClock == 1
\* The number of loadNotes/saveNotes calls made in one behaviour.
MaxOps == 2
\* The files db/backups holds at startup were modified up to MaxAge ticks ago.
MaxAge == 2
\* The number of process starts (runs of ensureDb) in one behaviour.
MaxRuns == 2
\* calls of loadNotes/saveNotes in a run of three calls in a row
MaxCalls == 3
\* lockfile.lock(dbPath, { retries: { retries: 5, ... } })
Retries == 5

NoteIds == {"1", "2"}
Callers == {"c1", "c2"}
\* the DELETE handlers that call removeBackupsContainingNote
Purgers == {"p1", "p2"}
\* the process start that runs ensureDb before app.listen
Boot == "boot"
Procs == Callers \cup {Boot}
None == "none"

\* ---------------------------------------------------------- file contents
\* A file's content, by what the code can tell apart: its kind, the ids of
\* the records of an array in order, and whether the text is the one
\* JSON.stringify(_, null, 2) produces.
Text(kind) == [k |-> kind, notes |-> <<>>, pretty |-> FALSE]
\* no file at the path
NoFile == Text("nofile")
\* ''  (zero bytes: also what a file holds right after being opened with 'w')
EmptyText == Text("empty")
\* ' \n'
Blank == Text("ws")
\* '{not json'
NotJson == Text("bad")
\* '{}'
EmptyObject == Text("obj0")
\* '{"a":1}'
JsonObject == Text("obj")
\* '[...]'; '[]' has one spelling
Arr(notes, pretty) ==
    [k |-> "arr", notes |-> notes, pretty |-> (pretty \/ notes = <<>>)]
EmptyArr == Arr(<<>>, TRUE)

\* JSON.stringify(notes, null, 2)
Stringify(notes) == Arr(notes, TRUE)

\* JSON.parse(raw) throws
ParseThrows(raw) == raw.k \in {"empty", "ws", "bad", "nofile"}
\* raw || '[]'
OrEmptyArr(raw) == IF raw.k = "empty" THEN EmptyArr ELSE raw
\* Array.isArray(JSON.parse(raw))
IsArray(raw) == raw.k = "arr"

\* ------------------------------------------------------------ file names
\* A path: db/db.json, a file of db/backups (db-<ts>.json, corrupt-<ts>.json),
\* or the '.tmp' sibling atomicWrite gives any of them (tmp counts the
\* '.tmp' suffixes).
Path(kind, ts) == [kind |-> kind, ts |-> ts, tmp |-> 0]
\* dbPath
DbPath == Path("primary", 0)
\* path.join(backupsDir, `db-${ts}.json`)
SnapshotName(ts) == Path("db", ts)
\* path.join(backupsDir, `corrupt-${Date.now()}.json`)
CorruptName(ts) == Path("corrupt", ts)
\* file + '.tmp'
TmpOf(path) == [path EXCEPT !.tmp = @ + 1]
\* no open file; an open file whose name is gone
NoPath == Path("none", 0)
Unlinked == Path("unlinked", 0)

InBackups(path) == path.kind \in {"db", "corrupt"}

\* ------------------------------------------------------------------ state
VARIABLES
    files,      \* the files of db/: path -> [c: content, mtime]
    clock,      \* Date.now()
    lock,       \* who holds db/db.json.lock, or None
    pc,         \* where each process (a request handler, the startup) is
    op,         \* the call each process makes
    aw,         \* the atomicWrite a process is in: file, data, where it returns
    fd,         \* where the file a process holds open for writing is now
    attempts,   \* failed attempts at the lock in this call
    fnOut,      \* how the callback passed to withLock ended
    out,        \* how the call settled
    hist,       \* per process, about its current call: conc (others ran
                \* meanwhile), got (it got the lock), relFailed (release()
                \* rejected), wrote (it replaced what db.json held), pre (what
                \* db.json held when it got the lock), afterSave (a saveNotes
                \* had returned when it began)
    nops,       \* calls made
    snaps,      \* backup copies made by makeBackupIfExists
    purge,      \* the calls of removeBackupsContainingNote: id, per-file tasks
    boot,       \* the runs of ensureDb: their number, db/ as the last one found
                \* it, whether the one before found db.json holding valid JSON
    req         \* the HTTP request each handler serves and how far it is

vars == <<files, clock, lock, pc, op, aw, fd, attempts, fnOut, out, hist, nops,
          snaps, purge, boot, req>>

\* ------------------------------------------------------------ the file system
Exists(path) == path \in DOMAIN files
Content(path) == IF path \in DOMAIN files THEN files[path].c ELSE NoFile
db == Content(DbPath)
tmp == Content(TmpOf(DbPath))
\* fs.readdir(backupsDir)
Readdir == {p \in DOMAIN files : InBackups(p)}

\* Only the mtimes of the files of db/backups are ever read.
Stamp(path) == IF InBackups(path) THEN clock ELSE 0

\* the file at path holds content c, modified now
FsPut(fs, path, c) ==
    [p \in (DOMAIN fs) \cup {path} |->
       IF p = path THEN [c |-> c, mtime |-> Stamp(path)] ELSE fs[p]]
\* open(path, 'w'): created empty, or truncated
FsOpenW(fs, path) == FsPut(fs, path, EmptyText)
\* write(fd, data): to the file that was opened, under the name it has now
FsWriteFd(fs, f, data) == IF f \in DOMAIN fs THEN FsPut(fs, f, data) ELSE fs
\* fs.rename(src, dst)
FsRename(fs, src, dst) ==
    [p \in ((DOMAIN fs) \cup {dst}) \ {src} |-> IF p = dst THEN fs[src] ELSE fs[p]]
FdAfterRename(f, src, dst) ==
    IF f = src THEN dst ELSE IF f = dst THEN Unlinked ELSE f
\* fs.unlink(path)
FsUnlink(fs, path) == [p \in (DOMAIN fs) \ {path} |-> fs[p]]
FdAfterUnlink(f, path) == IF f = path THEN Unlinked ELSE f
\* fs.copyFile(src, dst)
FsCopy(fs, src, dst) == FsPut(fs, dst, fs[src].c)

\* ------------------------------------------------------------ results
NoResult == [st |-> "none", why |-> "", isArr |-> FALSE, notes |-> <<>>]
Threw(why) == [st |-> "err", why |-> why, isArr |-> FALSE, notes |-> <<>>]
Returned(raw) == [st |-> "ok", why |-> "", isArr |-> IsArray(raw), notes |-> raw.notes]
Void == [st |-> "ok", why |-> "", isArr |-> FALSE, notes |-> <<>>]

NoOp == [kind |-> "none", arg |-> <<>>]
NoWrite == [file |-> NoPath, data |-> NoFile, ret |-> "none"]
NoReq == [kind |-> "none", id |-> "", st |-> "idle"]
NoPurge == [st |-> "idle", id |-> "", pre |-> << >>, task |-> << >>]
NoHist ==
    [conc |-> FALSE, got |-> FALSE, relFailed |-> FALSE, wrote |-> FALSE,
     pre |-> NoFile, afterSave |-> FALSE]

\* ------------------------------------------------------------ the lock
\* between lockfile.lock resolving and release() being called
InCS(c) ==
    \/ pc[c] \in {"backup", "read", "release"}
    \/ pc[c] \in {"aw_open", "aw_write", "aw_rename"} /\ aw[c].ret = "release"

Active(c) == pc[c] \notin {"idle", "done"}

\* -------------------------------------------------------------- Init
Quiet ==
    /\ clock = 0
    /\ lock = None
    /\ pc = [c \in Procs |-> "idle"]
    /\ op = [c \in Procs |-> NoOp]
    /\ aw = [c \in Procs |-> NoWrite]
    /\ fd = [c \in Procs |-> NoPath]
    /\ attempts = [c \in Procs |-> 0]
    /\ fnOut = [c \in Procs |-> NoResult]
    /\ out = [c \in Procs |-> NoResult]
    /\ hist = [c \in Procs |-> NoHist]
    /\ nops = 0
    /\ snaps = 0
    /\ boot = [pre |-> << >>, runs |-> 0, prevOk |-> FALSE]
    /\ purge = [p \in Purgers |-> NoPurge]
    /\ req = [c \in Callers |-> NoReq]

\* db/ as the handlers may find it: no db.json yet, or one holding a note.
Init ==
    /\ files \in {<< >>, FsPut(<< >>, DbPath, Stringify(<<"2">>))}
    /\ Quiet

\* ------------------------------------------------------------ operations
SaveArgs == {<<"1">>, <<"1", "2">>}
Ops ==
    {[kind |-> "load", arg |-> <<>>]} \cup {[kind |-> "save", arg |-> n] : n \in SaveArgs}

\* the saveNotes call of c has returned successfully
SavedOk(c) == pc[c] = "done" /\ op[c].kind = "save" /\ out[c].st = "ok"

\* A request handler calls loadNotes() or saveNotes(notes); withLock starts:
\* if (!fsSync.existsSync(dbPath)) await atomicWrite(dbPath, '[]')
Call(c, o) ==
    /\ pc[c] \in {"idle", "done"}
    /\ op' = [op EXCEPT ![c] = o]
    /\ IF ~Exists(DbPath)
       THEN /\ pc' = [pc EXCEPT ![c] = "aw_open"]
            /\ aw' = [aw EXCEPT ![c] = [file |-> DbPath, data |-> EmptyArr, ret |-> "lock"]]
       ELSE /\ pc' = [pc EXCEPT ![c] = "lock"]
            /\ aw' = [aw EXCEPT ![c] = NoWrite]
    /\ attempts' = [attempts EXCEPT ![c] = 0]
    /\ fnOut' = [fnOut EXCEPT ![c] = NoResult]
    /\ out' = [out EXCEPT ![c] = NoResult]
    /\ hist' = [x \in Procs |->
                  IF x = c
                  THEN [NoHist EXCEPT !.conc = \E y \in Callers \ {c} : Active(y),
                                      !.afterSave = \E y \in Callers : SavedOk(y)]
                  ELSE IF Active(x) THEN [hist[x] EXCEPT !.conc = TRUE]
                  ELSE hist[x]]
    /\ UNCHANGED <<files, clock, lock, fd, snaps, purge, boot>>

\* a call made by some handler, whatever the request it serves
Begin(c, limit) ==
    /\ nops < limit
    /\ \E o \in Ops : Call(c, o)
    /\ nops' = nops + 1
    /\ req' = req

StartOp(c) == Begin(c, MaxOps)

\* An error thrown inside atomicWrite: before the lock it rejects withLock,
\* inside the callback it is the callback's error and the lock is released.
AwThrow(c, why) ==
    IF aw[c].ret = "release"
    THEN /\ pc' = [pc EXCEPT ![c] = "release"]
         /\ fnOut' = [fnOut EXCEPT ![c] = Threw(why)]
         /\ out' = out
    ELSE /\ pc' = [pc EXCEPT ![c] = "done"]
         /\ out' = [out EXCEPT ![c] = Threw(why)]
         /\ fnOut' = fnOut

\* atomicWrite: fs.writeFile(tmp, data) opens the file with 'w', which creates
\* it or truncates the one that is there.
AwOpen(c) ==
    /\ pc[c] = "aw_open"
    /\ files' = FsOpenW(files, TmpOf(aw[c].file))
    /\ fd' = [fd EXCEPT ![c] = TmpOf(aw[c].file)]
    /\ pc' = [pc EXCEPT ![c] = "aw_write"]
    /\ UNCHANGED <<clock, lock, op, aw, attempts, fnOut, out, hist, nops, snaps, purge, boot, req>>

\* atomicWrite: fs.writeFile(tmp, data) writes the data and closes the file.
AwWrite(c) ==
    /\ pc[c] = "aw_write"
    /\ files' = FsWriteFd(files, fd[c], aw[c].data)
    /\ fd' = [fd EXCEPT ![c] = NoPath]
    /\ pc' = [pc EXCEPT ![c] = "aw_rename"]
    /\ hist' = [hist EXCEPT ![c].wrote = @ \/ (Exists(DbPath) /\ db' # db)]
    /\ UNCHANGED <<clock, lock, op, aw, attempts, fnOut, out, nops, snaps, purge, boot, req>>

\* fs.writeFile fails (disk full, I/O error): nothing is written, and
\* atomicWrite throws.
AwWriteFailIgnored(c) ==
    /\ pc[c] = "aw_write"
    /\ fd' = [fd EXCEPT ![c] = NoPath]
    /\ pc' = [pc EXCEPT ![c] = "aw_rename"]
    /\ UNCHANGED <<files, clock, lock, op, aw, attempts, fnOut, out, hist, nops,
                   snaps, purge, boot, req>>
AwWriteFail(c) ==
    /\ pc[c] = "aw_write"
    /\ fd' = [fd EXCEPT ![c] = NoPath]
    /\ AwThrow(c, "EIO")
    /\ UNCHANGED <<files, clock, lock, op, aw, attempts, hist, nops, snaps, purge, boot, req>>

\* atomicWrite: fs.rename(tmp, file)
AwRename(c) ==
    /\ pc[c] = "aw_rename"
    /\ IF ~Exists(TmpOf(aw[c].file))
       THEN /\ AwThrow(c, "ENOENT")
            /\ UNCHANGED <<files, fd>>
       ELSE /\ files' = FsRename(files, TmpOf(aw[c].file), aw[c].file)
            /\ fd' = [x \in Procs |-> FdAfterRename(fd[x], TmpOf(aw[c].file), aw[c].file)]
            /\ pc' = [pc EXCEPT ![c] = aw[c].ret]
            /\ fnOut' = IF aw[c].ret = "release"
                        THEN [fnOut EXCEPT ![c] = Void] ELSE fnOut
            /\ out' = IF aw[c].ret = "done"
                      THEN [out EXCEPT ![c] = Void] ELSE out
    /\ hist' = [hist EXCEPT ![c].wrote = @ \/ (Exists(DbPath) /\ db' # db)]
    /\ UNCHANGED <<clock, lock, op, aw, attempts, nops, snaps, purge, boot, req>>

\* lockfile.lock(dbPath, ...): mkdir db.json.lock
LockIsFreeAlways(c) == TRUE
LockIsFree(c) == lock = None

LockAcquire(c) ==
    /\ pc[c] = "lock"
    /\ LockIsFree(c)
    /\ lock' = c
    /\ pc' = [pc EXCEPT ![c] = IF op[c].kind = "load" THEN "read" ELSE "backup"]
    /\ aw' = [aw EXCEPT ![c] =
                IF op[c].kind = "load" THEN NoWrite
                ELSE [file |-> DbPath, data |-> Stringify(op[c].arg), ret |-> "release"]]
    /\ attempts' = [attempts EXCEPT ![c] = 0]
    /\ hist' = [hist EXCEPT ![c].got = TRUE, ![c].pre = db]
    /\ UNCHANGED <<files, clock, op, fd, fnOut, out, nops, snaps, purge, boot, req>>

\* The lock is held: retry, and after the last retry give up with
\* 'Unable to acquire DB lock: ...'.
LockBusy(c) ==
    /\ pc[c] = "lock"
    /\ ~LockIsFree(c)
    /\ IF attempts[c] < Retries
       THEN /\ attempts' = [attempts EXCEPT ![c] = attempts[c] + 1]
            /\ UNCHANGED <<pc, out>>
       ELSE /\ pc' = [pc EXCEPT ![c] = "done"]
            /\ out' = [out EXCEPT ![c] = Threw("lock")]
            /\ attempts' = attempts
    /\ UNCHANGED <<files, clock, lock, op, aw, fd, fnOut, hist, nops, snaps, purge, boot, req>>

\* makeBackupIfExists: fs.access(dbPath), then
\* fs.copyFile(dbPath, backups/db-<ts>.json)
MakeBackupIfExists(c) ==
    /\ pc[c] = "backup"
    /\ IF ~Exists(DbPath)
       THEN UNCHANGED <<files, snaps>>
       ELSE /\ files' = FsCopy(files, DbPath, SnapshotName(clock))
            /\ snaps' = snaps + 1
    /\ pc' = [pc EXCEPT ![c] = "aw_open"]
    /\ UNCHANGED <<clock, lock, op, aw, fd, attempts, fnOut, out, hist, nops, purge, boot, req>>

\* loadNotes: fs.readFile(dbPath).catch(() => '[]'), JSON.parse(raw || '[]')
Read(c) ==
    /\ pc[c] = "read"
    /\ LET raw == OrEmptyArr(IF Exists(DbPath) THEN db ELSE EmptyArr)
       IN fnOut' = [fnOut EXCEPT ![c] =
                      IF ParseThrows(raw) THEN Threw("parse") ELSE Returned(raw)]
    /\ pc' = [pc EXCEPT ![c] = "release"]
    /\ UNCHANGED <<files, clock, lock, op, aw, fd, attempts, out, hist, nops, snaps, purge, boot, req>>

\* withLock: try { return await fn(); } finally { try { await release(); }
\* catch (e) {} }
ReleaseSkippedOnThrow(c) ==
    /\ pc[c] = "release"
    /\ lock' = IF fnOut[c].st = "err" THEN lock ELSE None
    /\ out' = [out EXCEPT ![c] = fnOut[c]]
    /\ pc' = [pc EXCEPT ![c] = "done"]
    /\ UNCHANGED <<files, clock, op, aw, fd, attempts, fnOut, hist, nops, snaps, purge, boot, req>>
Release(c) ==
    /\ pc[c] = "release"
    /\ lock' = None
    /\ out' = [out EXCEPT ![c] = fnOut[c]]
    /\ pc' = [pc EXCEPT ![c] = "done"]
    /\ UNCHANGED <<files, clock, op, aw, fd, attempts, fnOut, hist, nops, snaps, purge, boot, req>>

\* release() rejects (rmdir of db.json.lock failed): the error is ignored and
\* the lock directory stays.
ReleaseFail(c) ==
    /\ pc[c] = "release"
    /\ out' = [out EXCEPT ![c] = fnOut[c]]
    /\ pc' = [pc EXCEPT ![c] = "done"]
    /\ hist' = [hist EXCEPT ![c].relFailed = TRUE]
    /\ UNCHANGED <<files, clock, lock, op, aw, fd, attempts, fnOut, nops, snaps, purge, boot, req>>

\* A lock directory nobody refreshes goes stale and is removed by the next
\* lockfile.lock call.
StaleExpire ==
    /\ lock # None
    /\ ~InCS(lock)
    /\ lock' = None
    /\ UNCHANGED <<files, clock, pc, op, aw, fd, attempts, fnOut, out, hist, nops,
                   snaps, purge, boot, req>>

Tick ==
    /\ clock < MaxClock
    /\ clock' = clock + 1
    /\ UNCHANGED <<files, lock, pc, op, aw, fd, attempts, fnOut, out, hist, nops,
                   snaps, purge, boot, req>>

\* ------------------------------------------------------------ ensureDb
\* cleanupEmptyBackups removes a file that is zero bytes, only whitespace, or
\* JSON for an empty array or an empty object.
IsEmptyBackup(c) ==
    \/ c.k = "empty"
    \/ c.k = "ws"
    \/ c.k = "arr" /\ c.notes = <<>>
    \/ c.k = "obj0"

\* latestBackup: the file of db/backups modified last (the sort keeps the
\* directory's order among equal mtimes), none if the directory is empty
LatestBackupOldestFirst(fs) ==
    {f \in DOMAIN fs : InBackups(f)
        /\ \A g \in DOMAIN fs : InBackups(g) => fs[g].mtime >= fs[f].mtime}
LatestBackup(fs) ==
    {f \in DOMAIN fs : InBackups(f)
        /\ \A g \in DOMAIN fs : InBackups(g) => fs[g].mtime <= fs[f].mtime}

\* if (!fsSync.existsSync(dbPath))
DbMissingOrNot(fs) == TRUE
DbMissing(fs) == DbPath \notin DOMAIN fs

\* fs.copyFile(dbPath, backups/corrupt-<Date.now()>.json).catch(() => {})
QuarantineSkipped(fs) == fs
Quarantine(fs) == FsCopy(fs, DbPath, CorruptName(clock))

\* The process starts: server.js awaits ensureDb() before it listens.
BootStart ==
    /\ pc[Boot] \in {"idle", "done"}
    /\ boot.runs < MaxRuns
    /\ boot' = [pre |-> files, runs |-> boot.runs + 1,
                prevOk |-> /\ boot.runs > 0
                           /\ DbPath \in DOMAIN boot.pre
                           /\ ~ParseThrows(boot.pre[DbPath].c)]
    /\ pc' = [pc EXCEPT ![Boot] = "cleanup"]
    /\ out' = [out EXCEPT ![Boot] = NoResult]
    /\ UNCHANGED <<files, clock, lock, op, aw, fd, attempts, fnOut, hist, nops,
                   snaps, purge, req>>

\* ensureDb: await ensureDirs(); await cleanupEmptyBackups()
CleanupNothing ==
    /\ pc[Boot] = "cleanup"
    /\ pc' = [pc EXCEPT ![Boot] = "validate"]
    /\ UNCHANGED <<files, clock, lock, op, aw, fd, attempts, fnOut, out, hist, nops,
                   snaps, purge, boot, req>>
CleanupEmptyBackups ==
    /\ pc[Boot] = "cleanup"
    /\ files' = [p \in {q \in DOMAIN files :
                          ~(InBackups(q) /\ IsEmptyBackup(files[q].c))} |-> files[p]]
    /\ pc' = [pc EXCEPT ![Boot] = "validate"]
    /\ UNCHANGED <<clock, lock, op, aw, fd, attempts, fnOut, out, hist, nops, snaps,
                   purge, boot, req>>

\* ensureDb: create db.json if it is missing; otherwise JSON.parse(raw || '[]'),
\* and if that throws look for a backup with latestBackup().
Validate ==
    /\ pc[Boot] = "validate"
    /\ IF DbMissing(files)
       THEN /\ pc' = [pc EXCEPT ![Boot] = "aw_open"]
            /\ aw' = [aw EXCEPT ![Boot] =
                        [file |-> DbPath, data |-> EmptyArr, ret |-> "done"]]
            /\ out' = out
       ELSE IF ~ParseThrows(OrEmptyArr(db))
       THEN /\ pc' = [pc EXCEPT ![Boot] = "done"]
            /\ out' = [out EXCEPT ![Boot] = Void]
            /\ aw' = aw
       ELSE /\ pc' = [pc EXCEPT ![Boot] =
                        IF LatestBackup(files) # {} THEN "restore" ELSE "quarantine"]
            /\ UNCHANGED <<aw, out>>
    /\ UNCHANGED <<files, clock, lock, op, fd, attempts, fnOut, hist, nops, snaps,
                   purge, boot, req>>

\* restoreFromBackup: b = await latestBackup(); fs.copyFile(b, dbPath) opens
\* db.json for writing, which truncates it.
RestoreOpen ==
    /\ pc[Boot] = "restore"
    /\ IF LatestBackup(files) = {}
       THEN /\ pc' = [pc EXCEPT ![Boot] = "done"]
            /\ out' = [out EXCEPT ![Boot] = Threw("No backup available")]
            /\ UNCHANGED <<files, aw, fd>>
       ELSE /\ \E b \in LatestBackup(files) :
                  aw' = [aw EXCEPT ![Boot] =
                           [file |-> b, data |-> files[b].c, ret |-> "done"]]
            /\ files' = FsOpenW(files, DbPath)
            /\ fd' = [fd EXCEPT ![Boot] = DbPath]
            /\ pc' = [pc EXCEPT ![Boot] = "restore_copy"]
            /\ out' = out
    /\ UNCHANGED <<clock, lock, op, attempts, fnOut, hist, nops, snaps, purge, boot, req>>

\* restoreFromBackup: fs.copyFile(b, dbPath) copies the bytes of b.
RestoreCopy ==
    /\ pc[Boot] = "restore_copy"
    /\ files' = FsWriteFd(files, fd[Boot], Content(aw[Boot].file))
    /\ fd' = [fd EXCEPT ![Boot] = NoPath]
    /\ pc' = [pc EXCEPT ![Boot] = "done"]
    /\ out' = [out EXCEPT ![Boot] = Void]
    /\ UNCHANGED <<clock, lock, op, aw, attempts, fnOut, hist, nops, snaps, purge, boot, req>>

\* ensureDb, no backup: copy the corrupt file aside, then
\* atomicWrite(dbPath, '[]')
QuarantineCorrupt ==
    /\ pc[Boot] = "quarantine"
    /\ files' = Quarantine(files)
    /\ aw' = [aw EXCEPT ![Boot] = [file |-> DbPath, data |-> EmptyArr, ret |-> "done"]]
    /\ pc' = [pc EXCEPT ![Boot] = "aw_open"]
    /\ UNCHANGED <<clock, lock, op, fd, attempts, fnOut, out, hist, nops, snaps,
                   purge, boot, req>>

Next ==
    \/ \E c \in Callers :
         \/ StartOp(c)
         \/ AwOpen(c) \/ AwWrite(c) \/ AwWriteFail(c) \/ AwRename(c)
         \/ LockAcquire(c) \/ LockBusy(c)
         \/ MakeBackupIfExists(c)
         \/ Read(c)
         \/ Release(c) \/ ReleaseFail(c)
    \/ StaleExpire
    \/ Tick

Spec == Init /\ [][Next]_vars

\* ------------------------------------------- three calls, no I/O failure
StartCall(c) == Begin(c, MaxCalls)

NextCalls ==
    \E c \in Callers :
       \/ StartCall(c)
       \/ AwOpen(c) \/ AwWrite(c) \/ AwRename(c)
       \/ LockAcquire(c) \/ LockBusy(c)
       \/ MakeBackupIfExists(c)
       \/ Read(c)
       \/ Release(c)

SpecCalls == Init /\ [][NextCalls]_vars

\* ------------------------------------------------- startup on any db/
\* What db.json may hold when the process starts.
DbContents ==
    {EmptyText, Blank, NotJson, EmptyObject, JsonObject, EmptyArr,
     Arr(<<"1">>, TRUE), Arr(<<"1">>, FALSE), Arr(<<"2", "1">>, TRUE)}
\* What a snapshot may hold: a copy of what db.json held at some save.
SnapshotContents ==
    {EmptyText, Blank, NotJson, EmptyObject, EmptyArr, Arr(<<"1">>, TRUE),
     Arr(<<"2", "1">>, TRUE), Arr(<<"3", "1", "2">>, FALSE)}
\* What a quarantined file holds: text JSON.parse threw on.
CorruptContents == {Blank, NotJson}

\* The files db/backups may hold at startup: a quarantined file is written
\* when the directory is empty, so it is the oldest; a snapshot is modified at
\* or after the time in its name.
StartupNames == {CorruptName(-MaxAge), SnapshotName(-MaxAge), SnapshotName(-1)}
StartupFiles(name) ==
    IF name.kind = "corrupt"
    THEN {[c |-> c, mtime |-> name.ts] : c \in CorruptContents}
    ELSE {[c |-> c, mtime |-> t] : c \in SnapshotContents, t \in name.ts..(-1)}
StartupDirs ==
    UNION {{d \in [S -> UNION {StartupFiles(n) : n \in S}] :
               \A n \in S : d[n] \in StartupFiles(n)} : S \in SUBSET StartupNames}

InitBoot ==
    /\ \E d \in StartupDirs :
          \/ files = d
          \/ \E c \in DbContents :
                files = [p \in (DOMAIN d) \cup {DbPath} |->
                           IF p = DbPath THEN [c |-> c, mtime |-> 0] ELSE d[p]]
    /\ Quiet

\* The process has stopped, and before the next start db.json is left damaged
\* again.
Damage ==
    /\ pc[Boot] = "done"
    /\ 0 < boot.runs /\ boot.runs < MaxRuns
    /\ Exists(DbPath) /\ db # NotJson
    /\ files' = FsPut(files, DbPath, NotJson)
    /\ pc' = [pc EXCEPT ![Boot] = "idle"]
    /\ UNCHANGED <<clock, lock, op, aw, fd, attempts, fnOut, out, hist, nops,
                   snaps, purge, boot, req>>

NextBoot ==
    \/ BootStart
    \/ Damage
    \/ CleanupEmptyBackups
    \/ Validate
    \/ RestoreOpen
    \/ RestoreCopy
    \/ QuarantineCorrupt
    \/ AwOpen(Boot) \/ AwWrite(Boot) \/ AwRename(Boot)
    \/ Tick

SpecBoot == InitBoot /\ [][NextBoot]_vars

\* ------------------------------------------------------------ removeBackupsContainingNote
\* One task per file of the listing, all started together (Promise.all): a
\* task is at "read", "unlink", "aw_open", "aw_write", "aw_rename" or "end".
NoTask == [pc |-> "read", data |-> NoFile, fd |-> NoPath]
TaskAt(p, f, where) ==
    /\ purge[p].st = "running"
    /\ f \in DOMAIN purge[p].task
    /\ purge[p].task[f].pc = where

\* arr.filter(n => !(n && n.id === id))
FilteredKeepingMatches(notes, id) == SelectSeq(notes, LAMBDA n : n = id)
Filtered(notes, id) == SelectSeq(notes, LAMBDA n : n # id)

\* A rename or an unlink by one task moves or detaches the file another task
\* holds open; the callers of withLock hold no file of db/backups open.
TasksAfterRename(src, dst) ==
    [p \in Purgers |->
       [purge[p] EXCEPT !.task =
          [f \in DOMAIN purge[p].task |->
             [purge[p].task[f] EXCEPT !.fd = FdAfterRename(@, src, dst)]]]]
TasksAfterUnlink(path) ==
    [p \in Purgers |->
       [purge[p] EXCEPT !.task =
          [f \in DOMAIN purge[p].task |->
             [purge[p].task[f] EXCEPT !.fd = FdAfterUnlink(@, path)]]]]
SetTask(pg, p, f, t) == [pg EXCEPT ![p].task[f] = t]

\* fs.readdir(backupsDir); files.map(async (file) => ...)
PurgeCall(p, id) ==
    /\ purge[p].st = "idle"
    /\ purge' = [purge EXCEPT ![p] =
                   [st |-> "running", id |-> id, pre |-> files,
                    task |-> [f \in Readdir |-> NoTask]]]
    /\ UNCHANGED <<files, clock, lock, pc, op, aw, fd, attempts, fnOut, out,
                   hist, nops, snaps, boot>>

PurgeStart(p) ==
    /\ \E id \in NoteIds : PurgeCall(p, id)
    /\ req' = req

\* readFile, JSON.parse, Array.isArray, filter, and the choice of what to do
TaskRead(p, f) ==
    /\ TaskAt(p, f, "read")
    /\ LET raw == Content(f)
           kept == Filtered(raw.notes, purge[p].id)
           goes == IF raw.k \in {"nofile", "empty"} \/ ParseThrows(raw)
                      \/ ~IsArray(raw) \/ Len(kept) = Len(raw.notes)
                   THEN "end"
                   ELSE IF Len(kept) = 0 THEN "unlink" ELSE "aw_open"
       IN purge' = SetTask(purge, p, f,
                           [pc |-> goes, fd |-> NoPath,
                            data |-> IF goes = "aw_open" THEN Stringify(kept)
                                     ELSE NoFile])
    /\ UNCHANGED <<files, clock, lock, pc, op, aw, fd, attempts, fnOut, out,
                   hist, nops, snaps, boot, req>>

\* await fs.unlink(full).catch(() => {})
TaskUnlink(p, f) ==
    /\ TaskAt(p, f, "unlink")
    /\ files' = FsUnlink(files, f)
    /\ purge' = SetTask(TasksAfterUnlink(f), p, f,
                        [NoTask EXCEPT !.pc = "end"])
    /\ UNCHANGED <<clock, lock, pc, op, aw, fd, attempts, fnOut, out, hist,
                   nops, snaps, boot, req>>

\* atomicWrite(full, ...): writeFile opens full + '.tmp' ...
TaskOpen(p, f) ==
    /\ TaskAt(p, f, "aw_open")
    /\ files' = FsOpenW(files, TmpOf(f))
    /\ purge' = SetTask(purge, p, f,
                        [purge[p].task[f] EXCEPT !.pc = "aw_write",
                                                 !.fd = TmpOf(f)])
    /\ UNCHANGED <<clock, lock, pc, op, aw, fd, attempts, fnOut, out, hist,
                   nops, snaps, boot, req>>

\* ... writes the data through the descriptor ...
TaskWrite(p, f) ==
    /\ TaskAt(p, f, "aw_write")
    /\ files' = FsWriteFd(files, purge[p].task[f].fd, purge[p].task[f].data)
    /\ purge' = SetTask(purge, p, f,
                        [purge[p].task[f] EXCEPT !.pc = "aw_rename"])
    /\ UNCHANGED <<clock, lock, pc, op, aw, fd, attempts, fnOut, out, hist,
                   nops, snaps, boot, req>>

\* ... and renames it over full; a failure is swallowed by the task's catch.
TaskRename(p, f) ==
    /\ TaskAt(p, f, "aw_rename")
    /\ IF Exists(TmpOf(f))
       THEN /\ files' = FsRename(files, TmpOf(f), f)
            /\ purge' = SetTask(TasksAfterRename(TmpOf(f), f), p, f,
                                [NoTask EXCEPT !.pc = "end"])
       ELSE /\ files' = files
            /\ purge' = SetTask(purge, p, f, [NoTask EXCEPT !.pc = "end"])
    /\ UNCHANGED <<clock, lock, pc, op, aw, fd, attempts, fnOut, out, hist,
                   nops, snaps, boot, req>>

\* await Promise.all(tasks): every task has settled, the call returns
PurgeReturn(p) ==
    /\ purge[p].st = "running"
    /\ \A f \in DOMAIN purge[p].task : purge[p].task[f].pc = "end"
    /\ purge' = [purge EXCEPT ![p].st = "done", ![p].task = << >>]
    /\ UNCHANGED <<files, clock, lock, pc, op, aw, fd, attempts, fnOut, out,
                   hist, nops, snaps, boot, req>>

\* the steps of a call once it has listed the directory
PurgeSteps(p) ==
    \/ \E f \in DOMAIN purge[p].task :
          \/ TaskRead(p, f)
          \/ TaskUnlink(p, f)
          \/ TaskOpen(p, f)
          \/ TaskWrite(p, f)
          \/ TaskRename(p, f)
    \/ PurgeReturn(p)

\* One DELETE handler purges a note from the backups; nothing else runs.
Purge(p) ==
    \/ PurgeStart(p)
    \/ PurgeSteps(p)

InitPurge ==
    /\ files \in StartupDirs
    /\ Quiet

NextPurge ==
    \/ Purge("p1")
    \/ Tick

SpecPurge == InitPurge /\ [][NextPurge]_vars

\* Two DELETE handlers purge at the same time, over a snapshot that holds
\* several records and, maybe, an older one that holds a single record.
RecordSnapshots ==
    {Arr(<<"2", "1">>, TRUE), Arr(<<"3", "1", "2">>, FALSE)}
InitPurges ==
    /\ \E c \in RecordSnapshots, S \in {{}, {SnapshotName(-MaxAge)}} :
          files = [f \in S \cup {SnapshotName(-1)} |->
                     [c |-> IF f.ts = -1 THEN c ELSE Arr(<<"1">>, TRUE),
                      mtime |-> f.ts]]
    /\ Quiet

NextPurges == \E p \in Purgers : Purge(p)

SpecPurges == InitPurges /\ [][NextPurges]_vars

\* ------------------------------------------------- the HTTP handlers
\* Each handler serves one request: POST /api/notes with a fresh id
\* (Date.now() + random), or DELETE /api/notes/:id of a note of its own.
PurgerOf(c) == IF c = "c1" THEN "p1" ELSE "p2"
NewId(c) == IF c = "c1" THEN "3" ELSE "4"
OldId(c) == IF c = "c1" THEN "1" ELSE "2"
Requests(c) ==
    {[kind |-> "post", id |-> NewId(c), st |-> "load"],
     [kind |-> "delete", id |-> OldId(c), st |-> "load"]}
Responded(c) == req[c].st \in {"200", "404", "500"}
Respond(c, status) ==
    /\ req' = [req EXCEPT ![c].st = status]
    /\ UNCHANGED <<files, clock, lock, pc, op, aw, fd, attempts, fnOut, out, hist,
                   nops, snaps, purge, boot>>

\* const notes = await safeDb.loadNotes();
Request(c) ==
    /\ req[c].st = "idle"
    /\ boot.runs = 0 /\ IsArray(db)
    /\ \E r \in Requests(c) : req' = [req EXCEPT ![c] = r]
    /\ Call(c, [kind |-> "load", arg |-> <<>>])
    /\ nops' = nops

\* POST: notes.push(note); DELETE: notes.filter(n => n.id !== id), 404 if
\* nothing was removed; then await safeDb.saveNotes(...)
AfterLoad(c) ==
    /\ req[c].st = "load"
    /\ pc[c] = "done"
    /\ LET notes == out[c].notes
           next == IF req[c].kind = "post"
                   THEN Append(notes, req[c].id)
                   ELSE SelectSeq(notes, LAMBDA n : n # req[c].id)
       IN IF out[c].st # "ok" \/ ~out[c].isArr
          THEN Respond(c, "500")
          ELSE IF req[c].kind = "delete" /\ Len(next) = Len(notes)
          THEN Respond(c, "404")
          ELSE /\ Call(c, [kind |-> "save", arg |-> next])
               /\ req' = [req EXCEPT ![c].st = "save"]
               /\ nops' = nops

\* POST: res.json(note); DELETE: await removeBackupsContainingNote(id)
AfterSave(c) ==
    /\ req[c].st = "save"
    /\ pc[c] = "done"
    /\ IF out[c].st # "ok"
       THEN Respond(c, "500")
       ELSE IF req[c].kind = "post"
       THEN Respond(c, "200")
       ELSE /\ PurgeCall(PurgerOf(c), req[c].id)
            /\ req' = [req EXCEPT ![c].st = "purge"]

\* DELETE: res.json({ success: true })
AfterPurge(c) ==
    /\ req[c].st = "purge"
    /\ purge[PurgerOf(c)].st = "done"
    /\ Respond(c, "200")

\* With no request in flight the process stops and db.json is left damaged
\* (what the recovery path of ensureDb is there for) ...
Corrupt ==
    /\ boot.runs = 0 /\ IsArray(db)
    /\ \A c \in Callers : Responded(c)
    /\ files' = FsPut(files, DbPath, NotJson)
    /\ UNCHANGED <<clock, lock, pc, op, aw, fd, attempts, fnOut, out, hist, nops,
                   snaps, purge, boot, req>>

\* ... and the process is started again.
Restart ==
    /\ db = NotJson
    /\ BootStart

\* db.json holding two notes, no backup yet
InitApi ==
    /\ files = FsPut(<< >>, DbPath, Stringify(<<"1", "2">>))
    /\ Quiet

NextApi ==
    \/ \E c \in Callers :
         \/ Request(c) \/ AfterLoad(c) \/ AfterSave(c) \/ AfterPurge(c)
         \/ AwOpen(c) \/ AwWrite(c) \/ AwRename(c)
         \/ LockAcquire(c)
         \/ MakeBackupIfExists(c)
         \/ Read(c)
         \/ Release(c)
         \/ PurgeSteps(PurgerOf(c))
    \/ Corrupt
    \/ Restart
    \/ CleanupEmptyBackups
    \/ Validate
    \/ RestoreOpen
    \/ RestoreCopy
    \/ QuarantineCorrupt
    \/ AwOpen(Boot) \/ AwWrite(Boot) \/ AwRename(Boot)
    \/ Tick

SpecApi == InitApi /\ [][NextApi]_vars

\* ===================================================================
\* Claims about the handlers' calls (specification Spec)
\* ===================================================================

\* C1: at most one callback passed to withLock is executing at any time: no
\* two callers are between lock acquisition and lock release together.
C1_MutualExclusion ==
    \A c1, c2 \in Callers : c1 # c2 => ~(InCS(c1) /\ InCS(c2))

\* One caller is inside its callback while the other has been refused the lock.
C1_Witness ==
    \E c1, c2 \in Callers :
        /\ c1 # c2
        /\ InCS(c1) /\ pc[c1] = "aw_rename"
        /\ pc[c2] = "lock" /\ attempts[c2] > 0

\* C2: when the callers' saveNotes calls have all returned successfully,
\* db.json holds exactly the pretty-printed serialization of the collection of
\* one of them: never a merged, partial, empty or placeholder content.
C2_OneOfTheTwo ==
    (\A c \in Callers : SavedOk(c))
        => \E c \in Callers : db = Arr(op[c].arg, TRUE)

\* Two saves of different collections overlapped, one of them through the
\* placeholder of withLock, and both returned successfully.
C2_Witness ==
    /\ \A c \in Callers : SavedOk(c) /\ hist[c].conc
    /\ op["c1"].arg # op["c2"].arg
    /\ db = Arr(op["c1"].arg, TRUE)
    /\ \E ts \in 0..MaxClock :
          Exists(SnapshotName(ts)) /\ Content(SnapshotName(ts)) = EmptyArr

\* C3 (as claimed): every saveNotes that finds db.json present adds one
\* snapshot file of its own to db/backups: after N such saves there are N
\* more files, also when saves share a clock reading.
C3_OneSnapshotPerSave == Cardinality(Readdir) = snaps

\* C4 (as claimed): the content of db.json only ever changes, in one step,
\* from its complete prior content to the complete data of the atomicWrite
\* that renames onto it.
C4_TargetNeverPartial ==
    [][db' = db \/ \E c \in Callers :
                      /\ pc[c] = "aw_rename"
                      /\ aw[c].file = DbPath
                      /\ db' = aw[c].data]_vars

\* C10 (as claimed): once withLock has settled after acquiring the lock, the
\* caller does not hold the lock and withLock's outcome is the callback's.
C10_ReleasedOnEveryExit ==
    \A c \in Callers :
        (pc[c] = "done" /\ hist[c].got) => (lock # c /\ out[c] = fnOut[c])

\* C10 (amended): once withLock has settled after acquiring the lock, its
\* outcome is the callback's result or error, and the caller does not hold
\* the lock unless release() itself failed.
C10_ReleasedUnlessReleaseFails ==
    \A c \in Callers :
        (pc[c] = "done" /\ hist[c].got)
            => /\ out[c] = fnOut[c]
               /\ (~hist[c].relFailed => lock # c)

\* The callback threw, the lock was released and withLock threw the callback's
\* error.
C10_Witness ==
    \E c \in Callers :
        /\ pc[c] = "done" /\ hist[c].got /\ ~hist[c].relFailed
        /\ fnOut[c].st = "err" /\ out[c] = fnOut[c]
        /\ lock = None

\* ===================================================================
\* Claims about startup (specification SpecBoot)
\* ===================================================================
BootDone == pc[Boot] = "done" /\ out[Boot].st = "ok"
\* db.json and db/backups as the current run of ensureDb found them
PreDb == IF DbPath \in DOMAIN boot.pre THEN boot.pre[DbPath].c ELSE NoFile
PreBackups == {f \in DOMAIN boot.pre : InBackups(f)}
\* text, not empty, that JSON.parse throws on
Unparseable(c) == c.k \in {"bad", "ws"}

\* C5 (as claimed): whenever ensureDb has returned normally, db.json exists
\* and its content parses as a JSON array, whatever db.json and db/backups
\* held before.
C5_PrimaryIsArrayAfterStartup ==
    BootDone => (Exists(DbPath) /\ IsArray(db))

C8_IdempotentStartup ==
    (BootDone /\ DbPath \in DOMAIN boot.pre /\ ~ParseThrows(PreDb))
    => /\ db = PreDb
       /\ boot.prevOk => files = boot.pre

\* The second of two runs in a row on a healthy store with backups, the first
\* of which pruned an empty snapshot.
C8_Witness ==
    /\ BootDone
    /\ boot.runs = 2 /\ boot.prevOk
    /\ IsArray(db) /\ db.notes # <<>>
    /\ Exists(SnapshotName(-1)) /\ ~Exists(SnapshotName(-MaxAge))
    /\ files = boot.pre

\* ===================================================================
\* Claims about removeBackupsContainingNote (specification SpecPurge)
\* ===================================================================
PurgeDone(p) == purge[p].st = "done"
PurgePre(p) == {f \in DOMAIN purge[p].pre : InBackups(f)}
Holds(c, id) == IsArray(c) /\ \E i \in 1..Len(c.notes) : c.notes[i] = id
OnlyHolds(c, id) ==
    IsArray(c) /\ c.notes # <<>> /\ \A i \in 1..Len(c.notes) : c.notes[i] = id

\* C9: once removeBackupsContainingNote(id), running alone, has returned, no
\* file of db/backups that parses as an array holds a record with that id; a
\* file that held only such records is deleted; every other file that held
\* one is an array of its other records in their original order; the files
\* that held none are as they were.
C9_PurgedFromBackups ==
    PurgeDone("p1") =>
        LET id == purge["p1"].id
            pre == purge["p1"].pre
        IN /\ \A f \in Readdir : ~Holds(files[f].c, id)
           /\ Readdir \subseteq PurgePre("p1")
           /\ \A f \in PurgePre("p1") :
                 IF OnlyHolds(pre[f].c, id)
                 THEN ~Exists(f)
                 ELSE /\ Exists(f)
                      /\ IF Holds(pre[f].c, id)
                         THEN /\ IsArray(files[f].c)
                              /\ files[f].c.notes =
                                   SelectSeq(pre[f].c.notes, LAMBDA n : n # id)
                         ELSE files[f].c = pre[f].c

\* The call has returned after deleting one file that held only the note and
\* rewriting another that held it between two other records.
C9_Witness ==
    /\ PurgeDone("p1")
    /\ \E f, g \in PurgePre("p1") :
          /\ OnlyHolds(purge["p1"].pre[f].c, purge["p1"].id)
          /\ ~Exists(f)
          /\ Len(purge["p1"].pre[g].c.notes) = 3
          /\ Exists(g)
          /\ Len(files[g].c.notes) = 2

\* ===================================================================
\* Further claims about the handlers' calls (specification Spec)
\* ===================================================================
LockFailed(c) == pc[c] = "done" /\ out[c] = Threw("lock")

\* C11 (as claimed): a call of loadNotes/saveNotes that ended with the
\* lock-acquisition error never got the lock (its callback did not run, so it
\* made no snapshot) and did not replace the content of db.json.
C11_FailedLockTouchedNothing ==
    \A c \in Callers : LockFailed(c) => (~hist[c].got /\ ~hist[c].wrote)

\* the step in which the saveNotes call of c returns successfully
SaveReturns(c) ==
    /\ pc[c] = "release" /\ pc'[c] = "done"
    /\ op[c].kind = "save" /\ fnOut[c].st = "ok"

\* C12 (as claimed): when saveNotes(c) got the lock with db.json holding p and
\* returns successfully, a snapshot db-<timestamp>.json holds exactly p and
\* db.json holds the pretty-printed serialization of c.
C12_SnapshotThenWrite ==
    [][\A c \in Callers :
          SaveReturns(c) =>
             /\ \E f \in DOMAIN files' : f.kind = "db" /\ files'[f].c = hist[c].pre
             /\ db' = Arr(op[c].arg, TRUE)]_vars

\* ===================================================================
\* Claims about calls in a row (specification SpecCalls)
\* ===================================================================
LoadedOk(c) == pc[c] = "done" /\ op[c].kind = "load" /\ out[c].st = "ok"

\* C13 (as claimed): a loadNotes returns a whole collection, and one that began
\* after a saveNotes had returned successfully returns the collection passed
\* to some saveNotes, not the initial content and not a content no save wrote
\* (every save here passes a collection that is neither empty nor the initial
\* one).
C13_LoadsSeeCompletedSaves ==
    \A c \in Callers :
       LoadedOk(c) =>
          /\ out[c].isArr
          /\ hist[c].afterSave => out[c].notes \in SaveArgs

\* ===================================================================
\* Further claims about startup (specification SpecBoot)
\* ===================================================================
Restoring == pc[Boot] \in {"restore", "restore_copy"}

\* C14 (as claimed): at every point of restoreFromBackup, db.json holds
\* either the complete content it had before the restore or the complete
\* content of the backup being restored.
C14_RestoreNeverPartial ==
    Restoring =>
       \/ db = PreDb
       \/ pc[Boot] = "restore_copy" /\ db = Content(aw[Boot].file)

HasRecords(c) == IsArray(c) /\ c.notes # <<>>
PrunedAndKept(dir) ==
    /\ \A f \in dir : ~IsEmptyBackup(files[f].c)
    /\ \A f \in PreBackups : HasRecords(boot.pre[f].c) => (Exists(f) /\ files[f] = boot.pre[f])
RestoresNoEmpty == pc[Boot] = "restore_copy" => ~IsEmptyBackup(aw[Boot].data)

\* C15 (as claimed): after ensureDb no file of db/backups holds zero-length or
\* whitespace-only text, '[]' or '{}'; every backup with at least one record
\* is retained unchanged; what is restored into db.json is never the content
\* of an empty snapshot.
C15_NoEmptyBackupLeft ==
    /\ BootDone => PrunedAndKept(Readdir)
    /\ RestoresNoEmpty

\* C15 (amended): after ensureDb none of the files db/backups held before the
\* run with zero-length or whitespace-only text, '[]' or '{}' remains (the
\* quarantine file the run itself writes may hold whitespace-only text);
\* every backup with at least one record is retained unchanged; what is
\* restored into db.json is never the content of an empty snapshot.
C15_EmptyBackupsPruned ==
    /\ BootDone => PrunedAndKept(Readdir \cap PreBackups)
    /\ RestoresNoEmpty

\* db.json was restored from the older snapshot after the newest file of
\* db/backups, an empty one, had been pruned.
C15_Witness ==
    /\ BootDone
    /\ Unparseable(PreDb)
    /\ \E f, g \in PreBackups :
          /\ IsEmptyBackup(boot.pre[f].c) /\ ~Exists(f)
          /\ boot.pre[g].mtime < boot.pre[f].mtime
          /\ HasRecords(boot.pre[g].c) /\ Exists(g) /\ db = files[g].c

\* ===================================================================
\* Claims about the lock discipline (specification Spec)
\* ===================================================================
\* C16 (as claimed): every step that changes db.json (a write, a rename onto
\* it, a copy onto it, its creation by the placeholder of withLock) is taken
\* by the caller that holds the lock at that moment.
C16_MutationOnlyUnderLock ==
    [][db' # db => (lock # None /\ pc'[lock] # pc[lock])]_vars

\* ===================================================================
\* Claims about the HTTP handlers (specification SpecApi)
\* ===================================================================
Deleted(c) == req[c].kind = "delete" /\ req[c].st = "200"
Posted(c) == req[c].kind = "post" /\ req[c].st = "200"

\* C17 (as claimed): once the DELETE handler for an id has answered success,
\* no later recovery by ensureDb leaves db.json holding a record with that id.
C17_NoResurrection ==
    (BootDone /\ boot.runs > 0)
        => \A c \in Callers : Deleted(c) => ~Holds(db, req[c].id)

\* C18 (as claimed): once all requests have been answered, every note whose
\* POST answered success is in db.json (no DELETE names a posted id here) and
\* every note whose DELETE answered success is absent from it.
C18_NoLostUpdate ==
    ((\A c \in Callers : Responded(c)) /\ boot.runs = 0 /\ IsArray(db))
        => \A c \in Callers :
              /\ Posted(c) => Holds(db, req[c].id)
              /\ Deleted(c) => ~Holds(db, req[c].id)

\* ===================================================================
\* Claims about concurrent purges (specification SpecPurges)
\* ===================================================================
\* C19 (as claimed): when removeBackupsContainingNote(a) and
\* removeBackupsContainingNote(b), a # b, have both returned, no file of
\* db/backups that parses as an array holds a record with id a or id b.
C19_PurgesCompose ==
    (PurgeDone("p1") /\ PurgeDone("p2") /\ purge["p1"].id # purge["p2"].id)
        => \A f \in Readdir :
              ~Holds(files[f].c, purge["p1"].id) /\ ~Holds(files[f].c, purge["p2"].id)

\* ===================================================================
\* Claims about what recovery restores (specification SpecBoot)
\* ===================================================================
\* C20 (as claimed): the file restoreFromBackup copies onto db.json is always
\* a snapshot db-<timestamp>.json, never a quarantine file
\* corrupt-<timestamp>.json and never a '.tmp' file.
C20_RestoresOnlySnapshots ==
    pc[Boot] = "restore_copy"
        => (aw[Boot].file.kind = "db" /\ aw[Boot].file.tmp = 0)

============================================================================
